---- MODULE Spec2Model ----
(***************************************************************************)
(* Rockland Concrete CRM (src/app.py): one Streamlit script that is run    *)
(* from top to bottom on every user interaction.  A step of this model is  *)
(* one run of the script for one browser session: the password gate, the   *)
(* schema initialisation and the page selected in the sidebar, with every  *)
(* query and command the run executes.                                     *)
(*                                                                         *)
(* SQL values that may be NULL (Python None) are tuples: <<>> is NULL and  *)
(* <<v>> the value v.  Money is whole pounds.  A table is a set of rows; a *)
(* query result is a sequence of rows.                                     *)
(***************************************************************************)
EXTENDS Integers, Sequences, FiniteSets, TLC

VARIABLES
    env_password,    \* os.getenv("APP_PASSWORD"): NULL when unset
    authenticated,   \* per session: "authenticated" in st.session_state
    can_create,      \* whether the backend lets this process CREATE TABLE
    db,              \* existing table name -> set of rows
    serial,          \* existing table name -> last AUTOINCREMENT/SERIAL id
    clock,           \* days elapsed since StartDay
    run              \* what the last run of the script did and displayed

vars == <<env_password, authenticated, can_create, db, serial, clock, run>>

----------------------------------------------------------------------------
\* Bounds of the model

MaxRows == 4          \* rows in the whole database
MaxParents == 2       \* rows in accounts, and in opportunities
MaxChildren == 1      \* rows in contacts, in quotes, and in activities
MaxClock == 1         \* days the clock advances
MaxStored == 3        \* opportunity rows of a store checked for its stage totals
MaxDated == 2         \* opportunity rows of a store checked for its overdue rows

Sessions == {"s1", "s2"}
AccountNames == {"Acme", "Bolt"}
ContactNames == {"Kim"}
OpportunityNames == {"Depot", "Quay"}
Passwords == {"", "rockland", "guess"}

----------------------------------------------------------------------------
\* Values

NULL == <<>>
Some(v) == <<v>>

\* Python truthiness of a str-or-None widget value
Truthy(opt) == opt # NULL /\ opt[1] # ""

EmptyDict == [k \in {} |-> 0]

\* dict.get(key): None when the key is absent
DictGet(d, key) == IF key \in DOMAIN d THEN Some(d[key]) ELSE NULL

\* DictZip with the id column not advanced with the name column: every name
\* gets the id of the last row
DictZipLastId(rows) ==
    [k \in {rows[i].name : i \in 1..Len(rows)} |-> rows[Len(rows)].id]

\* dict(zip(frame["name"], frame["id"])): a later row overwrites an earlier one
RECURSIVE DictZip(_)
DictZip(rows) ==
    IF rows = <<>> THEN EmptyDict
    ELSE LET n == Len(rows)
             d == DictZip(SubSeq(rows, 1, n - 1))
             last == rows[n]
         IN [k \in DOMAIN d \cup {last.name} |->
                IF k = last.name THEN last.id ELSE d[k]]

\* dict(zip(...)) if not frame.empty else {}
NameToId(rows) == IF rows = <<>> THEN EmptyDict ELSE DictZip(rows)

\* st.selectbox(label, options): one of the options, None when there is none
SelectboxValues(options) ==
    IF options = {} THEN {NULL} ELSE {Some(o) : o \in options}

----------------------------------------------------------------------------
\* Dates

StartDay == <<2024, 2, 28>>

IsLeap(y) == (y % 4 = 0) /\ ((y % 100 # 0) \/ (y % 400 = 0))

DaysInMonth(y, m) ==
    IF m = 2 THEN (IF IsLeap(y) THEN 29 ELSE 28)
    ELSE IF m \in {4, 6, 9, 11} THEN 30 ELSE 31

NextDay(d) ==
    IF d[3] < DaysInMonth(d[1], d[2]) THEN <<d[1], d[2], d[3] + 1>>
    ELSE IF d[2] < 12 THEN <<d[1], d[2] + 1, 1>>
    ELSE <<d[1] + 1, 1, 1>>

RECURSIVE AddDays(_, _)
AddDays(d, n) == IF n = 0 THEN d ELSE AddDays(NextDay(d), n - 1)

\* pd.Timestamp.today().date()
Today == AddDays(StartDay, clock)

\* datetime.date.__lt__
DateLess(a, b) ==
    \/ a[1] < b[1]
    \/ a[1] = b[1] /\ a[2] < b[2]
    \/ a[1] = b[1] /\ a[2] = b[2] /\ a[3] < b[3]

\* date.isoformat(): the text "YYYY-MM-DD" as its three fields
IsoFormat(d) == [kind |-> "iso", y |-> d[1], m |-> d[2], d |-> d[3]]

NaT == <<>>

\* pd.to_datetime(text, errors="coerce").date(): NaT for NULL, for text that
\* is not a date and for a date that does not exist
ToDate(text) ==
    IF text.kind = "iso"
       /\ text.m \in 1..12
       /\ text.d \in 1..DaysInMonth(text.y, text.m)
    THEN <<text.y, text.m, text.d>>
    ELSE NaT

----------------------------------------------------------------------------
\* SQL

TABLES == <<"accounts", "contacts", "opportunities", "quotes", "quote_items", "activities">>

TableNames == {TABLES[i] : i \in 1..Len(TABLES)}

STAGES == <<"Lead", "Qualified", "Estimating", "Bid Submitted", "Negotiation",
            "Awarded", "In Production", "Delivered", "Closed Won", "Closed Lost">>

TerminalStages == {"Closed Won", "Closed Lost"}

\* Every ordering of a row set that an ORDER BY allows: key gives each row
\* its sort key, smaller keys come first, rows with equal keys in either order
Orderings(rows, key) ==
    LET Ord[T \in SUBSET rows] ==
            IF T = {} THEN {<<>>}
            ELSE UNION {{<<x>> \o t : t \in Ord[T \ {x}]} :
                            x \in {x \in T : \A y \in T : key[x] <= key[y]}}
    IN Ord[rows]

\* Collation of the account names the model uses
NameRank(name) == IF name = "Acme" THEN 1 ELSE 2

\* The order of the text "YYYY-MM-DD"
TextRank(text) == text.y * 10000 + text.m * 100 + text.d

IdDesc(rows) == [r \in rows |-> 0 - r.id]
NameAsc(rows) == [r \in rows |-> NameRank(r.name)]
DueDateAsc(rows) == [r \in rows |-> TextRank(r.due_date)]
TotalDesc(rows) == [r \in rows |-> 0 - r.total]

\* SUM(value): NULLs are skipped, NULL when no row has a value
RECURSIVE SumValue(_)
SumValue(rows) ==
    IF rows = {} THEN NULL
    ELSE LET r == CHOOSE x \in rows : TRUE
             rest == SumValue(rows \ {r})
         IN IF r.value = NULL THEN rest
            ELSE IF rest = NULL THEN r.value
            ELSE Some(r.value[1] + rest[1])

Coalesce(x, dflt) == IF x = NULL THEN dflt ELSE x[1]

\* StageGroups with the GROUP BY lost from the sum: every stage gets the grand total
StageGroupsUngrouped(opps) ==
    {[stage |-> s, total |-> Coalesce(SumValue(opps), 0)] : s \in {r.stage : r \in opps}}

\* SELECT stage, COALESCE(SUM(value),0) AS total FROM opportunities GROUP BY stage
StageGroups(opps) ==
    {[stage |-> s, total |-> Coalesce(SumValue({r \in opps : r.stage = s}), 0)] :
        s \in {r.stage : r \in opps}}

\* ... ORDER BY total DESC
StageTotals(opps) == Orderings(StageGroups(opps), TotalDesc(StageGroups(opps)))

\* Overdue with "<=" for "<": a date equal to today counts as overdue
OverdueOrToday(opps, today) ==
    {r \in opps :
        /\ r.stage \notin TerminalStages
        /\ ToDate(r.expected_close_date) # NaT
        /\ ~DateLess(today, ToDate(r.expected_close_date))}

\* The overdue frame of the Reports page
Overdue(opps, today) ==
    {r \in opps :
        /\ r.stage \notin TerminalStages
        /\ ToDate(r.expected_close_date) # NaT
        /\ DateLess(ToDate(r.expected_close_date), today)}

----------------------------------------------------------------------------
\* The script's view of the store during one run: the tables, the id
\* counters, the statements executed so far and whether the last one raised

Begin == [rows |-> db, serial |-> serial, stmts |-> <<>>, raised |-> FALSE]

Log(st, verb, tabs) == [st EXCEPT !.stmts = Append(@, <<verb, tabs>>)]

\* an except clause: the run goes on
Caught(st) == [st EXCEPT !.raised = FALSE]

\* CreateTableIfNotExists without IF NOT EXISTS: an existing table is an error
CreateTable(st, t) ==
    LET logged == Log(st, "CREATE", {t})
    IN IF t \notin DOMAIN logged.rows /\ can_create
       THEN [logged EXCEPT !.rows = (t :> {}) @@ @, !.serial = (t :> 0) @@ @]
       ELSE [logged EXCEPT !.raised = TRUE]

\* One statement of the schema, CREATE TABLE IF NOT EXISTS t, in its own
\* transaction: nothing happens when t exists
CreateTableIfNotExists(st, t) ==
    LET logged == Log(st, "CREATE", {t})
    IN IF t \in DOMAIN logged.rows THEN logged
       ELSE IF can_create
            THEN [logged EXCEPT !.rows = (t :> {}) @@ @,
                                !.serial = (t :> 0) @@ @]
            ELSE [logged EXCEPT !.raised = TRUE]

RECURSIVE ExecuteDDL(_, _)
ExecuteDDL(st, i) ==
    IF i > Len(TABLES) \/ st.raised THEN st
    ELSE ExecuteDDL(CreateTableIfNotExists(st, TABLES[i]), i + 1)

init_schema(st) == ExecuteDDL(st, 1)

\* q(sql): raises when a table it names does not exist
q(st, tabs) ==
    [Log(st, "SELECT", tabs) EXCEPT !.raised = ~(tabs \subseteq DOMAIN st.rows)]

\* The id an INSERT gives the new row
NextId(st, t) == st.serial[t] + 1

\* exec_sql as an INSERT OR REPLACE that reuses the id of the latest row
exec_sql_replace(st, t, fields) ==
    LET logged == Log(st, "INSERT", {t})
    IN IF t \notin DOMAIN st.rows THEN [logged EXCEPT !.raised = TRUE]
       ELSE LET id == IF st.serial[t] = 0 THEN 1 ELSE st.serial[t]
            IN [logged EXCEPT !.rows[t] = {r \in @ : r.id # id} \cup {[id |-> id] @@ fields},
                              !.serial[t] = id]

\* exec_sql("INSERT INTO t ..."): one new row with the next id
exec_sql(st, t, fields) ==
    LET logged == Log(st, "INSERT", {t})
    IN IF t \notin DOMAIN st.rows THEN [logged EXCEPT !.raised = TRUE]
       ELSE LET id == NextId(st, t)
            IN [logged EXCEPT !.rows[t] = @ \cup {[id |-> id] @@ fields},
                              !.serial[t] = id]

TotalRows == LET Count[i \in 0..Len(TABLES)] ==
                     IF i = 0 THEN 0
                     ELSE Count[i - 1] +
                          (IF TABLES[i] \in DOMAIN db
                           THEN Cardinality(db[TABLES[i]]) ELSE 0)
             IN Count[Len(TABLES)]

\* room left for one more row in table t
Room(t, max) ==
    /\ TotalRows < MaxRows
    /\ t \in DOMAIN db => Cardinality(db[t]) < max

\* a LEFT JOIN's parent name: NULL when no parent row has the id
ParentName(parents, ref) ==
    IF ref # NULL /\ \E p \in parents : p.id = ref[1]
    THEN Some((CHOOSE p \in parents : p.id = ref[1]).name)
    ELSE NULL

----------------------------------------------------------------------------
\* The run record

NoForm == [save |-> FALSE, required |-> <<>>]
NoView == [shown |-> FALSE]

NoRun == [session |-> "", page |-> "", pwd |-> "", db_init |-> "", stmts |-> <<>>,
          outcome |-> "", saved |-> FALSE, form |-> NoForm, view |-> NoView]

\* lines 196-200: the sidebar caption of the schema initialisation
DbInit(st) == IF st.raised THEN "error" ELSE "OK"

\* The end of a run: outcome is "ok", "inline_error" (an st.error shown by
\* the page's own except clause) or "unhandled" (the exception left the script)
Finish(s, page, started, st, outcome, saved, form, view) ==
    /\ db' = st.rows
    /\ serial' = st.serial
    /\ run' = [session |-> s, page |-> page, pwd |-> "", db_init |-> DbInit(started),
               stmts |-> st.stmts, outcome |-> outcome, saved |-> saved,
               form |-> form, view |-> view]
    /\ UNCHANGED <<env_password, authenticated, can_create, clock>>

----------------------------------------------------------------------------
\* Lines 15-22: the password gate

\* PasswordMatches with an unset APP_PASSWORD read as the empty string
PasswordMatchesDefault(pwd) == pwd = IF env_password = NULL THEN "" ELSE env_password[1]

PasswordMatches(pwd) == Some(pwd) = env_password

Gate(s) ==
    /\ ~authenticated[s]
    /\ \E pwd \in Passwords :
          /\ authenticated' = IF PasswordMatches(pwd)
                              THEN [authenticated EXCEPT ![s] = TRUE]
                              ELSE authenticated
          /\ run' = [NoRun EXCEPT !.session = s, !.pwd = pwd,
                        !.outcome = IF PasswordMatches(pwd) THEN "rerun"
                                    ELSE IF pwd # "" THEN "wrong_password"
                                    ELSE "stopped"]
    /\ UNCHANGED <<env_password, can_create, db, serial, clock>>

----------------------------------------------------------------------------
\* Lines 241-250: Dashboard

Dashboard(s) ==
    /\ authenticated[s]
    /\ \E s0 \in {init_schema(Begin)} :
       \E s1 \in {q(Caught(s0), {"opportunities"})} :
          IF s1.raised
          THEN Finish(s, "Dashboard", s0, s1, "inline_error", FALSE, NoForm, NoView)
          ELSE \E opps \in StageTotals(s1.rows["opportunities"]) :
                  Finish(s, "Dashboard", s0, s1, "ok", FALSE, NoForm,
                         [shown |-> TRUE, totals |-> opps,
                          info |-> opps = <<>>, chart |-> opps # <<>>])

----------------------------------------------------------------------------
\* Lines 252-276: Accounts

AccountsAccept(save, name) == save /\ name # ""

IdAsc(rows) == [r \in rows |-> r.id]

\* AccountsListing in ascending order of id
AccountsListingAsc(rows) == Orderings(rows, IdAsc(rows))

\* SELECT * FROM accounts ORDER BY id DESC
AccountsListing(rows) == Orderings(rows, IdDesc(rows))

AccountRow(name) ==
    [name |-> name, type |-> "Main Contractor", region |-> "", credit_limit |-> 0,
     payment_terms |-> "30 days", risk_rating |-> "Low"]

Accounts(s) ==
    /\ authenticated[s]
    /\ \E save \in BOOLEAN :
       \E name \in IF save THEN AccountNames \cup {""} ELSE {""} :
       \E form \in {[save |-> save, required |-> <<Some(name)>>]} :
       \E accept \in {AccountsAccept(save, name)} :
       \E s0 \in {init_schema(Begin)} :
       \E s1 \in {IF accept THEN exec_sql(Caught(s0), "accounts", AccountRow(name))
                  ELSE Caught(s0)} :
       \E s2 \in {q(s1, {"accounts"})} :
            /\ accept => Room("accounts", MaxParents)
            /\ IF s1.raised
               THEN Finish(s, "Accounts", s0, s1, "unhandled", FALSE, form, NoView)
               ELSE IF s2.raised
               THEN Finish(s, "Accounts", s0, s2, "inline_error", accept, form, NoView)
               ELSE \E listing \in AccountsListing(s2.rows["accounts"]) :
                       Finish(s, "Accounts", s0, s2, "ok", accept, form,
                              [shown |-> TRUE, listing |-> listing])

----------------------------------------------------------------------------
\* Lines 278-306: Contacts

\* ChildAccept without the test of the text field
ChildAcceptAnyText(save, parent, text) == save /\ Truthy(parent)

\* "if save and acct and name" (Contacts, Opportunities) and
\* "if save and opp and qnum" (Quotes)
ChildAccept(save, parent, text) == save /\ Truthy(parent) /\ text # ""

\* SELECT id, name FROM accounts ORDER BY name
IdAndName(rows) == {[id |-> r.id, name |-> r.name] : r \in rows}

AccountsByName(rows) == Orderings(IdAndName(rows), NameAsc(IdAndName(rows)))

\* the selectbox of a form: any option when the form is submitted, else the
\* first one
Chosen(save, listing) ==
    IF save THEN SelectboxValues({listing[i].name : i \in 1..Len(listing)})
    ELSE IF listing = <<>> THEN {NULL} ELSE {Some(listing[1].name)}

ContactRow(aid, name) ==
    [account_id |-> aid, name |-> name, role |-> "", email |-> "", phone |-> ""]

\* SELECT c.id, a.name AS account, ... FROM contacts c LEFT JOIN accounts a
\* ON a.id=c.account_id ORDER BY c.id DESC
ContactsListing(contacts, accts) ==
    LET joined == {[id |-> c.id, account |-> ParentName(accts, c.account_id),
                    name |-> c.name] : c \in contacts}
    IN Orderings(joined, IdDesc(joined))

Contacts(s) ==
    /\ authenticated[s]
    /\ \E s0 \in {init_schema(Begin)} :
       \E s1 \in {q(Caught(s0), {"accounts"})} :
          IF s1.raised
          THEN Finish(s, "Contacts", s0, s1, "unhandled", FALSE, NoForm, NoView)
          ELSE
            \E accounts \in AccountsByName(s1.rows["accounts"]) :
            \E acct_name_to_id \in {NameToId(accounts)} :
            \E save \in BOOLEAN :
            \E acct \in Chosen(save, accounts) :
            \E name \in IF save THEN ContactNames \cup {""} ELSE {""} :
            \E form \in {[save |-> save, required |-> <<acct, Some(name)>>]} :
            \E accept \in {ChildAccept(save, acct, name)} :
            \E s2 \in {IF accept
                       THEN exec_sql(s1, "contacts",
                                     ContactRow(Some(acct_name_to_id[acct[1]]), name))
                       ELSE s1} :
            \E s3 \in {q(s2, {"contacts", "accounts"})} :
                 /\ accept => Room("contacts", MaxChildren)
                 /\ IF s2.raised
                    THEN Finish(s, "Contacts", s0, s2, "unhandled", FALSE, form, NoView)
                    ELSE IF s3.raised
                    THEN Finish(s, "Contacts", s0, s3, "unhandled", accept, form, NoView)
                    ELSE \E listing \in ContactsListing(s3.rows["contacts"],
                                                        s3.rows["accounts"]) :
                            Finish(s, "Contacts", s0, s3, "ok", accept, form,
                                   [shown |-> TRUE, acct_name_to_id |-> acct_name_to_id,
                                    listing |-> listing])

----------------------------------------------------------------------------
\* Lines 308-360: Opportunities

OpportunityRow(aid, name, stage, ecd, value) ==
    [account_id |-> aid, name |-> name, stage |-> stage,
     expected_close_date |-> ecd, value |-> Some(value),
     product_type |-> "Precast panels", region |-> "", probability |-> 30,
     source |-> "Direct"]

\* SELECT o.id, a.name AS account, o.name, o.stage, o.value,
\* o.expected_close_date FROM opportunities o LEFT JOIN accounts a ... ORDER BY o.id DESC
Board(opps, accts) ==
    LET joined == {[id |-> o.id, account |-> ParentName(accts, o.account_id),
                    name |-> o.name, stage |-> o.stage, value |-> o.value,
                    expected_close_date |-> o.expected_close_date] : o \in opps}
    IN Orderings(joined, IdDesc(joined))

Opportunities(s) ==
    /\ authenticated[s]
    /\ \E s0 \in {init_schema(Begin)} :
       \E s1 \in {q(Caught(s0), {"accounts"})} :
          IF s1.raised
          THEN Finish(s, "Opportunities", s0, s1, "unhandled", FALSE, NoForm, NoView)
          ELSE
            \E accounts \in AccountsByName(s1.rows["accounts"]) :
            \E acct_name_to_id \in {NameToId(accounts)} :
            \E save \in BOOLEAN :
            \E acct \in Chosen(save, accounts) :
            \E name \in IF save THEN OpportunityNames \cup {""} ELSE {""} :
            \E stage \in {STAGES[3]} :
            \E form \in {[save |-> save, required |-> <<acct, Some(name)>>]} :
            \E accept \in {ChildAccept(save, acct, name)} :
            \E s2 \in {IF accept
                       THEN exec_sql(s1, "opportunities",
                                OpportunityRow(Some(acct_name_to_id[acct[1]]), name,
                                               stage, IsoFormat(Today), 0))
                       ELSE s1} :
            \E s3 \in {q(s2, {"opportunities", "accounts"})} :
                 /\ accept => Room("opportunities", MaxParents)
                 /\ IF s2.raised
                    THEN Finish(s, "Opportunities", s0, s2, "unhandled", FALSE, form, NoView)
                    ELSE IF s3.raised
                    THEN Finish(s, "Opportunities", s0, s3, "unhandled", accept, form, NoView)
                    ELSE \E opps \in Board(s3.rows["opportunities"], s3.rows["accounts"]) :
                            Finish(s, "Opportunities", s0, s3, "ok", accept, form,
                                   [shown |-> TRUE, acct_name_to_id |-> acct_name_to_id,
                                    board |-> opps, info |-> opps = <<>>])

----------------------------------------------------------------------------
\* Lines 362-403: Quotes

\* OpportunitiesByIdDesc in ascending order of id
OpportunitiesByIdAsc(rows) == Orderings(IdAndName(rows), IdAsc(IdAndName(rows)))

\* SELECT id, name FROM opportunities ORDER BY id DESC
OpportunitiesByIdDesc(rows) == Orderings(IdAndName(rows), IdDesc(IdAndName(rows)))

QuoteRow(oid, qnum, date) ==
    [opportunity_id |-> oid, quote_number |-> qnum, date |-> date,
     status |-> "Draft", total_value |-> 0, currency |-> "GBP",
     price_index_clause |-> 0]

\* SELECT q.id, o.name AS opportunity, ... FROM quotes q LEFT JOIN
\* opportunities o ON o.id=q.opportunity_id ORDER BY q.id DESC
QuotesListing(quotes, opps) ==
    LET joined == {[id |-> x.id, opportunity |-> ParentName(opps, x.opportunity_id),
                    quote_number |-> x.quote_number] : x \in quotes}
    IN Orderings(joined, IdDesc(joined))

Quotes(s) ==
    /\ authenticated[s]
    /\ \E s0 \in {init_schema(Begin)} :
       \E s1 \in {q(Caught(s0), {"opportunities"})} :
          IF s1.raised
          THEN Finish(s, "Quotes", s0, s1, "unhandled", FALSE, NoForm, NoView)
          ELSE
            \E opps \in OpportunitiesByIdDesc(s1.rows["opportunities"]) :
            \E opp_name_to_id \in {NameToId(opps)} :
            \E save \in BOOLEAN :
            \E opp \in Chosen(save, opps) :
            \E qnum \in IF save THEN {"", "Q-0001"} ELSE {"Q-0001"} :
            \E form \in {[save |-> save, required |-> <<opp, Some(qnum)>>]} :
            \E accept \in {ChildAccept(save, opp, qnum)} :
            \E s2 \in {IF accept
                       THEN exec_sql(s1, "quotes",
                                QuoteRow(Some(opp_name_to_id[opp[1]]), qnum,
                                         IsoFormat(Today)))
                       ELSE s1} :
            \E s3 \in {q(s2, {"quotes", "opportunities"})} :
                 /\ accept => Room("quotes", MaxChildren)
                 /\ IF s2.raised
                    THEN Finish(s, "Quotes", s0, s2, "unhandled", FALSE, form, NoView)
                    ELSE IF s3.raised
                    THEN Finish(s, "Quotes", s0, s3, "unhandled", accept, form, NoView)
                    ELSE \E listing \in QuotesListing(s3.rows["quotes"],
                                                      s3.rows["opportunities"]) :
                            Finish(s, "Quotes", s0, s3, "ok", accept, form,
                                   [shown |-> TRUE, opp_name_to_id |-> opp_name_to_id,
                                    listing |-> listing])

----------------------------------------------------------------------------
\* Lines 405-441: Activities

ActivityRow(aid, oid, due, completed) ==
    [account_id |-> aid, opportunity_id |-> oid, type |-> "Bid Due", subject |-> "",
     due_date |-> due, owner |-> "Sales", notes |-> "",
     completed |-> IF completed THEN 1 ELSE 0]

\* SELECT * FROM activities WHERE completed=0 ORDER BY due_date ASC
OpenActivities(rows) ==
    LET open == {r \in rows : r.completed = 0}
    IN Orderings(open, DueDateAsc(open))

\* st.selectbox(label, [""] + list(d.keys()))
OptionalChoice(save, d) == IF save THEN {""} \cup DOMAIN d ELSE {""}

Activities(s) ==
    /\ authenticated[s]
    /\ \E s0 \in {init_schema(Begin)} :
       \E s1 \in {q(Caught(s0), {"accounts"})} :
       \E s2 \in {q(s1, {"opportunities"})} :
          IF s1.raised
          THEN Finish(s, "Activities", s0, s1, "unhandled", FALSE, NoForm, NoView)
          ELSE IF s2.raised
          THEN Finish(s, "Activities", s0, s2, "unhandled", FALSE, NoForm, NoView)
          ELSE
            \E accounts \in AccountsByName(s2.rows["accounts"]) :
            \E opps \in OpportunitiesByIdDesc(s2.rows["opportunities"]) :
            \E acct_name_to_id \in {NameToId(accounts)} :
            \E opp_name_to_id \in {NameToId(opps)} :
            \E save \in BOOLEAN :
            \E account \in OptionalChoice(save, acct_name_to_id) :
            \E opportunity \in OptionalChoice(save, opp_name_to_id) :
            \E completed \in {FALSE} :
            \E form \in {[save |-> save, required |-> <<>>]} :
            \E s3 \in {IF save
                       THEN exec_sql(s2, "activities",
                                ActivityRow(DictGet(acct_name_to_id, account),
                                            DictGet(opp_name_to_id, opportunity),
                                            IsoFormat(Today), completed))
                       ELSE s2} :
            \E s4 \in {q(s3, {"activities"})} :
                 /\ save => Room("activities", MaxChildren)
                 /\ IF s3.raised
                    THEN Finish(s, "Activities", s0, s3, "unhandled", FALSE, form, NoView)
                    ELSE IF s4.raised
                    THEN Finish(s, "Activities", s0, s4, "unhandled", save, form, NoView)
                    ELSE \E listing \in OpenActivities(s4.rows["activities"]) :
                            Finish(s, "Activities", s0, s4, "ok", save, form,
                                   [shown |-> TRUE, acct_name_to_id |-> acct_name_to_id,
                                    opp_name_to_id |-> opp_name_to_id,
                                    listing |-> listing])

----------------------------------------------------------------------------
\* Lines 443-458: Reports

Reports(s) ==
    /\ authenticated[s]
    /\ \E s0 \in {init_schema(Begin)} :
       \E s1 \in {q(Caught(s0), {"opportunities"})} :
       \E s2 \in {q(s1, {"opportunities"})} :
          IF s1.raised
          THEN Finish(s, "Reports", s0, s1, "unhandled", FALSE, NoForm, NoView)
          ELSE \E opps \in StageTotals(s1.rows["opportunities"]) :
               \E opps2 \in {s2.rows["opportunities"]} :
                  Finish(s, "Reports", s0, s2, "ok", FALSE, NoForm,
                         [shown |-> TRUE, totals |-> opps, today |-> Today,
                          overdue |-> IF opps2 # {} THEN Overdue(opps2, Today) ELSE {},
                          info |-> opps2 = {}])

----------------------------------------------------------------------------
\* Lines 460-484: Settings

\* the export loop: each table is queried in its own try block
RECURSIVE ExportTables(_, _, _)
ExportTables(st, i, out) ==
    IF i > Len(TABLES) THEN [st |-> st, out |-> out]
    ELSE LET r == q(st, {TABLES[i]})
         IN ExportTables(Caught(r), i + 1,
                [out EXCEPT ![IF r.raised THEN "warned" ELSE "exported"] =
                                @ \cup {TABLES[i]}])

Settings(s) ==
    /\ authenticated[s]
    /\ \E button \in BOOLEAN :
       \E s0 \in {init_schema(Begin)} :
       \E ex \in {ExportTables(Caught(s0), 1, [exported |-> {}, warned |-> {}])} :
       \E s1 \in {IF button THEN init_schema(ex.st) ELSE ex.st} :
            Finish(s, "Settings", s0, s1, "ok", FALSE, NoForm,
                   [shown |-> TRUE, exported |-> ex.out.exported,
                    warned |-> ex.out.warned,
                    verify |-> IF ~button THEN "none"
                               ELSE IF s1.raised THEN "error" ELSE "success"])

----------------------------------------------------------------------------
\* Environment

Tick ==
    /\ clock < MaxClock
    /\ clock' = clock + 1
    /\ UNCHANGED <<env_password, authenticated, can_create, db, serial, run>>

\* the operator of the backend grants the right to create tables
GrantCreate ==
    /\ ~can_create
    /\ can_create' = TRUE
    /\ UNCHANGED <<env_password, authenticated, db, serial, clock, run>>

NoTables == [t \in {} |-> {}]

\* A fresh store and one browser session
Init ==
    /\ env_password \in {NULL, Some("rockland")}
    /\ authenticated = [s \in {"s1"} |-> FALSE]
    /\ can_create \in BOOLEAN
    /\ db = NoTables
    /\ serial = NoTables
    /\ clock = 0
    /\ run = NoRun

Next ==
    \/ \E s \in DOMAIN authenticated : Gate(s)
    \/ \E s \in DOMAIN authenticated : Dashboard(s)
    \/ \E s \in DOMAIN authenticated : Accounts(s)
    \/ \E s \in DOMAIN authenticated : Contacts(s)
    \/ \E s \in DOMAIN authenticated : Opportunities(s)
    \/ \E s \in DOMAIN authenticated : Quotes(s)
    \/ \E s \in DOMAIN authenticated : Activities(s)
    \/ \E s \in DOMAIN authenticated : Reports(s)
    \/ \E s \in DOMAIN authenticated : Settings(s)
    \/ GrantCreate

Spec == Init /\ [][Next]_vars

\* Two browser sessions in front of the gate, every value of APP_PASSWORD
InitGate ==
    /\ env_password \in {NULL, Some(""), Some("rockland")}
    /\ authenticated = [s \in Sessions |-> FALSE]
    /\ can_create \in BOOLEAN
    /\ db = NoTables
    /\ serial = NoTables
    /\ clock = 0
    /\ run = NoRun

NextGate ==
    \/ \E s \in DOMAIN authenticated : Gate(s)
    \/ \E s \in DOMAIN authenticated : Dashboard(s)
    \/ \E s \in DOMAIN authenticated : Accounts(s)
    \/ \E s \in DOMAIN authenticated : Reports(s)
    \/ \E s \in DOMAIN authenticated : Settings(s)
    \/ GrantCreate

SpecGate == InitGate /\ [][NextGate]_vars

\* A store file that already holds opportunities, written by this or another
\* revision of the application, and a session past the gate
StoredDb(opps) == [t \in TableNames |-> IF t = "opportunities" THEN opps ELSE {}]

StoredSerial(opps) ==
    [t \in TableNames |-> IF t = "opportunities" THEN Cardinality(opps) ELSE 0]

StoredOpportunity(id, stage, ecd, value) ==
    [id |-> id, account_id |-> NULL, name |-> "Depot", stage |-> stage,
     expected_close_date |-> ecd, value |-> value,
     product_type |-> "Precast panels", region |-> "", probability |-> 30,
     source |-> "Direct"]

StoredTables(max, stages, dates, values) ==
    UNION {{{StoredOpportunity(i, f[i][1], f[i][2], f[i][3]) : i \in 1..n} :
                f \in [1..n -> stages \X dates \X values]} : n \in 0..max}

InitStored(opps) ==
    /\ env_password = Some("rockland")
    /\ authenticated = [s \in {"s1"} |-> TRUE]
    /\ can_create = TRUE
    /\ db = StoredDb(opps)
    /\ serial = StoredSerial(opps)
    /\ clock = 0
    /\ run = NoRun

InitTotals ==
    \E opps \in StoredTables(MaxStored, {"Lead", "Estimating", "Closed Won"},
                             {IsoFormat(StartDay)},
                             {NULL, Some(5000), Some(10000)}) :
        InitStored(opps)

NextTotals ==
    \/ \E s \in DOMAIN authenticated : Dashboard(s)
    \/ \E s \in DOMAIN authenticated : Reports(s)

SpecTotals == InitTotals /\ [][NextTotals]_vars

DateTexts ==
    {IsoFormat(<<2024, 2, 28>>), IsoFormat(<<2024, 2, 29>>), IsoFormat(<<2024, 3, 1>>),
     IsoFormat(<<2024, 2, 30>>), IsoFormat(<<2023, 2, 29>>),
     [kind |-> "text"], [kind |-> "null"]}

InitOverdue ==
    \E opps \in StoredTables(MaxDated, {"Estimating", "Closed Won", "Closed Lost"},
                             DateTexts, {Some(5000)}) :
        InitStored(opps)

NextOverdue ==
    \/ \E s \in DOMAIN authenticated : Reports(s)
    \/ Tick

SpecOverdue == InitOverdue /\ [][NextOverdue]_vars

----------------------------------------------------------------------------
\* Properties

Rows(d, t) == IF t \in DOMAIN d THEN d[t] ELSE {}

Max(S) == CHOOSE x \in S : \A y \in S : y <= x
Min(S) == CHOOSE x \in S : \A y \in S : x <= y

\* a step that is a run of the script past the gate
PageStep == run'.page # "" /\ can_create' = can_create /\ clock' = clock

\* the sum of value over a set of rows, a NULL counted as zero
RECURSIVE ValueOrZeroSum(_)
ValueOrZeroSum(rows) ==
    IF rows = {} THEN 0
    ELSE LET r == CHOOSE x \in rows : TRUE
         IN (IF r.value = NULL THEN 0 ELSE r.value[1]) + ValueOrZeroSum(rows \ {r})

\* C1: the stage totals shown by the Dashboard and by Reports have exactly one
\* row for each stage present in opportunities, the total of stage s is the sum
\* of value over exactly the rows of stage s (NULL as zero), the rows are in
\* non-increasing order of total, and there is no row when there is no
\* opportunity.
C1_StageTotals ==
    (run.page \in {"Dashboard", "Reports"} /\ run.outcome = "ok") =>
        LET t == run.view.totals
            opps == db["opportunities"]
            stages == {r.stage : r \in opps}
        IN /\ Len(t) = Cardinality(stages)
           /\ {t[i].stage : i \in 1..Len(t)} = stages
           /\ \A i \in 1..Len(t) :
                 t[i].total = ValueOrZeroSum({r \in opps : r.stage = t[i].stage})
           /\ \A i, j \in 1..Len(t) : i < j => t[i].total >= t[j].total
           /\ (opps = {} => t = <<>>)

\* three stages with different totals, one of them made of a NULL value alone
C1_Witness ==
    /\ run.page = "Dashboard" /\ run.outcome = "ok"
    /\ Len(run.view.totals) = 3
    /\ run.view.totals[1].total > run.view.totals[2].total
    /\ run.view.totals[2].total > run.view.totals[3].total
    /\ \E r \in db["opportunities"] : r.value = NULL

\* the dates of February 2023, February 2024 and March 2024
CalendarDays ==
    {<<2023, 2, d>> : d \in 1..28} \cup {<<2024, 2, d>> : d \in 1..29}
        \cup {<<2024, 3, d>> : d \in 1..31}

TextIsDate(text) == text.kind = "iso" /\ <<text.y, text.m, text.d>> \in CalendarDays

DayNumber(y, m, d) == (y * 12 + m) * 31 + d

\* C2: on the Reports page a row is in the overdue set if and only if its stage
\* is neither Closed Won nor Closed Lost, its expected_close_date is a valid
\* date, and that date is strictly before the current date; a row that differs
\* from an overdue row only in having a terminal stage is not overdue and is
\* still in the table.
C2_Overdue ==
    (run.page = "Reports" /\ run.outcome = "ok") =>
        LET today == run.view.today
            opps == db["opportunities"]
        IN /\ run.view.overdue \subseteq opps
           /\ \A r \in opps :
                 r \in run.view.overdue <=>
                    /\ r.stage \notin {"Closed Won", "Closed Lost"}
                    /\ TextIsDate(r.expected_close_date)
                    /\ DayNumber(r.expected_close_date.y, r.expected_close_date.m,
                                 r.expected_close_date.d)
                          < DayNumber(today[1], today[2], today[3])
           /\ \A r \in run.view.overdue : \A r2 \in opps :
                 (r2.stage \in {"Closed Won", "Closed Lost"}
                    /\ r2 = [r EXCEPT !.stage = r2.stage, !.id = r2.id])
                 => r2 \notin run.view.overdue

\* an overdue row, and a row with the same date and a terminal stage that is
\* stored and not overdue
C2_Witness ==
    /\ run.page = "Reports" /\ run.outcome = "ok"
    /\ \E r \in run.view.overdue : \E r2 \in db["opportunities"] \ run.view.overdue :
          /\ r2.stage = "Closed Won"
          /\ r2.expected_close_date = r.expected_close_date

\* C3: the accounts listing is in strictly descending order of id and lists
\* every account, and after a successful insert its first row is the row just
\* inserted.
C3_NewestFirst ==
    [][(PageStep /\ run'.page = "Accounts" /\ run'.outcome = "ok") =>
          LET l == run'.view.listing
          IN /\ \A i, j \in 1..Len(l) : i < j => l[i].id > l[j].id
             /\ {l[i] : i \in 1..Len(l)} = db'["accounts"]
             /\ run'.saved =>
                   /\ l # <<>>
                   /\ l[1] \notin Rows(db, "accounts")
                   /\ l[1].name = run'.form.required[1][1]]_vars

\* a second account saved and listed first
C3_Witness ==
    /\ run.page = "Accounts" /\ run.saved /\ run.outcome = "ok"
    /\ Len(run.view.listing) = 2
    /\ run.view.listing[1].id = 2

AccountIdsNamed(n) == {r.id : r \in {x \in Rows(db, "accounts") : x.name = n}}

HasAccountMap ==
    run.page \in {"Contacts", "Opportunities", "Activities"} /\ run.outcome = "ok"

\* the row a page has just saved
Saved(t) == CHOOSE r \in db[t] : r.id = serial[t]

\* C4 as claimed: accounts of one name are distinct rows, the account map of
\* the Contacts, Opportunities and Activities pages takes a name to the most
\* recently created account of that name, and a contact or opportunity saved
\* under the name is attached to that account.
C4_MostRecent ==
    /\ \A a, b \in Rows(db, "accounts") : a.id = b.id => a = b
    /\ HasAccountMap =>
          \A n \in DOMAIN run.view.acct_name_to_id :
              run.view.acct_name_to_id[n] = Max(AccountIdsNamed(n))
    /\ (HasAccountMap /\ run.saved /\ run.page = "Contacts") =>
          Saved("contacts").account_id =
              Some(Max(AccountIdsNamed(run.form.required[1][1])))
    /\ (HasAccountMap /\ run.saved /\ run.page = "Opportunities") =>
          Saved("opportunities").account_id =
              Some(Max(AccountIdsNamed(run.form.required[1][1])))

\* C4 as amended: accounts of one name are distinct rows, the account map has
\* exactly the account names as keys and takes a name to the id of one of the
\* accounts of that name, and a contact or opportunity saved under the name is
\* attached to the account the map gives.
C4_SomeOfThatName ==
    /\ \A a, b \in Rows(db, "accounts") : a.id = b.id => a = b
    /\ HasAccountMap =>
          /\ DOMAIN run.view.acct_name_to_id = {r.name : r \in db["accounts"]}
          /\ \A n \in DOMAIN run.view.acct_name_to_id :
                run.view.acct_name_to_id[n] \in AccountIdsNamed(n)
    /\ (HasAccountMap /\ run.saved /\ run.page = "Contacts") =>
          Saved("contacts").account_id =
              Some(run.view.acct_name_to_id[run.form.required[1][1]])
    /\ (HasAccountMap /\ run.saved /\ run.page = "Opportunities") =>
          Saved("opportunities").account_id =
              Some(run.view.acct_name_to_id[run.form.required[1][1]])

\* a contact saved under a name that two accounts have
C4_Witness ==
    /\ run.page = "Contacts" /\ run.saved /\ run.outcome = "ok"
    /\ Cardinality(AccountIdsNamed(run.form.required[1][1])) = 2
    /\ Saved("contacts").account_id[1] \in AccountIdsNamed(run.form.required[1][1])

\* C5: when the six tables exist, a run's schema initialisation reports OK and
\* leaves the set of tables and every stored row as they were, and so does the
\* Settings button, which reports success.
C5_Idempotent ==
    [][(PageStep /\ DOMAIN db = TableNames) =>
          /\ run'.db_init = "OK"
          /\ DOMAIN db' = TableNames
          /\ \A t \in TableNames : db[t] \subseteq db'[t]
          /\ run'.page = "Settings" =>
                /\ db' = db
                /\ serial' = serial
                /\ run'.view.verify \in {"none", "success"}
                /\ run'.view.warned = {}]_vars

\* the Settings button pressed on a store that holds rows
C5_Witness ==
    /\ run.page = "Settings"
    /\ run.view.verify = "success"
    /\ run.db_init = "OK"
    /\ TotalRows >= 2

\* C6: no query failure leaves a page as an unhandled exception.
C6_NoUnhandled == run.outcome # "unhandled"

FormTable(page) ==
    IF page = "Accounts" THEN "accounts"
    ELSE IF page = "Contacts" THEN "contacts"
    ELSE IF page = "Opportunities" THEN "opportunities"
    ELSE IF page = "Quotes" THEN "quotes"
    ELSE "activities"

MissingField(r) == \E i \in DOMAIN r.form.required : ~Truthy(r.form.required[i])

InsertsOf(r) == {i \in DOMAIN r.stmts : r.stmts[i][1] = "INSERT"}

\* C7: a submission with a required field missing executes no INSERT, leaves
\* every table as it was and shows no confirmation; an accepted submission
\* executes exactly one INSERT, into the table of its page, and when it
\* succeeds that table gains exactly one row and no other table changes.
C7_Validation ==
    [][(PageStep /\ run'.form.save
          /\ run'.page \in {"Accounts", "Contacts", "Opportunities", "Quotes", "Activities"}) =>
          IF MissingField(run')
          THEN /\ InsertsOf(run') = {}
               /\ \A t \in TableNames : Rows(db', t) = Rows(db, t)
               /\ ~run'.saved
          ELSE /\ Cardinality(InsertsOf(run')) = 1
               /\ \A i \in InsertsOf(run') :
                     run'.stmts[i] = <<"INSERT", {FormTable(run'.page)}>>
               /\ run'.outcome = "ok" => run'.saved
               /\ run'.saved =>
                     \A t \in TableNames :
                        IF t = FormTable(run'.page)
                        THEN /\ Rows(db, t) \subseteq Rows(db', t)
                             /\ Cardinality(Rows(db', t)) = Cardinality(Rows(db, t)) + 1
                        ELSE Rows(db', t) = Rows(db, t)]_vars

\* a quote submitted with an opportunity selected and no quote number
C7_Witness ==
    /\ run.page = "Quotes" /\ run.form.save
    /\ run.form.required[1] # NULL
    /\ run.form.required[2] = Some("")
    /\ ~run.saved

\* C8: a run renders a page or executes a statement only for a session that is
\* already authenticated, a session becomes authenticated only in a run of its
\* own gate in which the password entered equals APP_PASSWORD, and an
\* authenticated session stays authenticated.
C8_Gate ==
    [][/\ (run' # run /\ (run'.page # "" \/ run'.stmts # <<>>)) =>
              authenticated[run'.session]
       /\ (db' # db \/ serial' # serial) =>
              (run'.page # "" /\ authenticated[run'.session])
       /\ \A s \in DOMAIN authenticated :
             (~authenticated[s] /\ authenticated'[s]) =>
                 /\ run'.session = s
                 /\ run'.page = ""
                 /\ run'.stmts = <<>>
                 /\ env_password # NULL
                 /\ run'.pwd = env_password[1]
       /\ \A s \in DOMAIN authenticated : authenticated[s] => authenticated'[s]]_vars

\* one session past the gate has saved an account while the other is still
\* in front of it
C8_Witness ==
    /\ DOMAIN authenticated = Sessions
    /\ authenticated["s1"] /\ ~authenticated["s2"]
    /\ run.session = "s1" /\ run.page = "Accounts" /\ run.saved

\* C9: every stored row is still stored, unchanged, after every step; no two
\* rows of a table share an id; no table loses rows; quote_items stays empty.
C9_AppendOnly ==
    [][\A t \in TableNames :
          /\ Rows(db, t) \subseteq Rows(db', t)
          /\ Cardinality(Rows(db', t)) >= Cardinality(Rows(db, t))
          /\ \A a, b \in Rows(db', t) : a.id = b.id => a = b
          /\ Rows(db', "quote_items") = {}]_vars

\* an activity saved for an account and an opportunity
C9_Witness ==
    /\ run.page = "Activities" /\ run.saved
    /\ Saved("activities").account_id # NULL
    /\ Saved("activities").opportunity_id # NULL

OpportunityIdsNamed(n) == {r.id : r \in {x \in Rows(db, "opportunities") : x.name = n}}

OpportunityName(id) == (CHOOSE r \in db["opportunities"] : r.id = id).name

HasOpportunityMap == run.page \in {"Quotes", "Activities"} /\ run.outcome = "ok"

\* C10 as claimed: the opportunity map of the Quotes and Activities pages takes
\* a name to the opportunity of that name with the largest id, and a quote
\* saved under the name references that opportunity.
C10_LaterWins ==
    /\ HasOpportunityMap =>
          \A n \in DOMAIN run.view.opp_name_to_id :
              run.view.opp_name_to_id[n] = Max(OpportunityIdsNamed(n))
    /\ (HasOpportunityMap /\ run.saved /\ run.page = "Quotes") =>
          Saved("quotes").opportunity_id =
              Some(Max(OpportunityIdsNamed(run.form.required[1][1])))

\* C10 as amended: the opportunity map takes a name to the opportunity of that
\* name with the smallest id, the one created first, and every quote and
\* every activity that references an opportunity references the first created
\* of its name.
C10_EarlierWins ==
    /\ HasOpportunityMap =>
          /\ DOMAIN run.view.opp_name_to_id = {r.name : r \in db["opportunities"]}
          /\ \A n \in DOMAIN run.view.opp_name_to_id :
                run.view.opp_name_to_id[n] = Min(OpportunityIdsNamed(n))
    /\ (HasOpportunityMap /\ run.saved /\ run.page = "Quotes") =>
          Saved("quotes").opportunity_id =
              Some(Min(OpportunityIdsNamed(run.form.required[1][1])))
    /\ \A x \in Rows(db, "quotes") \cup Rows(db, "activities") :
          x.opportunity_id # NULL =>
              x.opportunity_id[1] =
                  Min(OpportunityIdsNamed(OpportunityName(x.opportunity_id[1])))

\* a quote saved under a name that two opportunities have
C10_Witness ==
    /\ run.page = "Quotes" /\ run.saved /\ run.outcome = "ok"
    /\ Cardinality(OpportunityIdsNamed(run.form.required[1][1])) = 2
    /\ Saved("quotes").opportunity_id =
          Some(Min(OpportunityIdsNamed(run.form.required[1][1])))

====
